---- MODULE Spec2Model ----
(***************************************************************************)
(* Rent-reclaim dApp: account detection (lib/detection-logic), the scan    *)
(* endpoint (api/scan-address) and the page's session state with the       *)
(* reclaimSOL transaction assembly, signing, submission and confirmation   *)
(* loop (app/page.tsx).                                                     *)
(*                                                                         *)
(* The specifications share the variables:                                 *)
(*   SpecFee    - the fee arithmetic of reclaimSOL on arbitrary-size       *)
(*                balances (JavaScript numbers, i.e. IEEE-754 doubles);    *)
(*   SpecLib    - filterSignificantAccounts and calculateTotalReclaim on    *)
(*                bounded account lists;                                   *)
(*   SpecDetect - one run of detectReclaimableAccounts;                    *)
(*   SpecRescan - two runs of it on the same query results;                *)
(*   Spec       - the page session (scan, selection, reclaim attempts);    *)
(*   SpecAbandon - Spec where the user may also leave the page;            *)
(*   SpecEndpoint - the address form, the scan request and the endpoint,   *)
(*                also called by other clients;                            *)
(*   SpecLive   - Spec with the fairness of the polling loop;              *)
(*   SpecSettle - Spec where every awaited call of an attempt settles.     *)
(***************************************************************************)
EXTENDS Integers, Sequences, FiniteSets, TLC

(***************************************************************************)
(* Natural numbers of any size as bit sequences, least significant bit     *)
(* first, without leading zero bits (zero is the empty sequence).  Lamport *)
(* amounts are JavaScript numbers; every amount of the model is a safe     *)
(* integer (< 2^53), on which +, - and comparisons are exact.              *)
(***************************************************************************)
RECURSIVE NatToBits(_)
NatToBits(n) == IF n = 0 THEN <<>> ELSE <<n % 2>> \o NatToBits(n \div 2)

RECURSIVE BitsToNat(_)
BitsToNat(b) == IF b = <<>> THEN 0 ELSE Head(b) + 2 * BitsToNat(Tail(b))

\* drop the zero bits above the highest set bit
Normalize(b) ==
  IF \A i \in 1..Len(b) : b[i] = 0 THEN <<>>
  ELSE SubSeq(b, 1, CHOOSE i \in 1..Len(b) :
                      b[i] = 1 /\ \A j \in (i + 1)..Len(b) : b[j] = 0)

\* Arithmetic goes through limbs of 13 bits (least significant first), so
\* that every intermediate value is far below 2^31.
LimbBase == 2^13

BitAt(b, i) == IF i <= Len(b) THEN b[i] ELSE 0

RECURSIVE LimbValue(_, _, _)
LimbValue(b, k, j) ==
  IF j = 13 THEN 0
  ELSE BitAt(b, 13 * (k - 1) + j + 1) * 2^j + LimbValue(b, k, j + 1)

ToLimbs(b) ==
  [k \in 1..((Len(b) + 12) \div 13) |-> LimbValue(b, k, 0)]

FromLimbs(l) ==
  Normalize([i \in 1..(13 * Len(l)) |->
               (l[((i - 1) \div 13) + 1] \div 2^((i - 1) % 13)) % 2])

LimbAt(l, k) == IF k >= 1 /\ k <= Len(l) THEN l[k] ELSE 0

\* turn column sums into limbs, carrying upwards
RECURSIVE CarryProp(_, _, _)
CarryProp(cols, k, carry) ==
  IF k > Len(cols) THEN (IF carry = 0 THEN <<>> ELSE <<carry>>)
  ELSE LET s == cols[k] + carry
       IN  <<s % LimbBase>> \o CarryProp(cols, k + 1, s \div LimbBase)

Max2(x, y) == IF x >= y THEN x ELSE y

AddBits(a, b) ==
  LET la == ToLimbs(a)
      lb == ToLimbs(b)
  IN  FromLimbs(CarryProp([k \in 1..Max2(Len(la), Len(lb)) |->
                             LimbAt(la, k) + LimbAt(lb, k)], 1, 0))

\* a - b for a >= b
RECURSIVE BorrowProp(_, _, _, _)
BorrowProp(la, lb, k, borrow) ==
  IF k > Len(la) THEN <<>>
  ELSE LET d == la[k] - LimbAt(lb, k) - borrow + LimbBase
       IN  <<d % LimbBase>> \o BorrowProp(la, lb, k + 1, 1 - (d \div LimbBase))

SubBits(a, b) == FromLimbs(BorrowProp(ToLimbs(a), ToLimbs(b), 1, 0))

RECURSIVE ColumnSum(_, _, _, _)
ColumnSum(la, lb, k, i) ==
  IF i > Len(la) THEN 0
  ELSE la[i] * LimbAt(lb, k - i + 1) + ColumnSum(la, lb, k, i + 1)

MulBits(a, b) ==
  LET la == ToLimbs(a)
      lb == ToLimbs(b)
  IN  IF la = <<>> \/ lb = <<>> THEN <<>>
      ELSE FromLimbs(CarryProp([k \in 1..(Len(la) + Len(lb) - 1) |->
                                  ColumnSum(la, lb, k, 1)], 1, 0))

\* a <= b on normalized bit sequences
LeqBits(a, b) ==
  \/ a = b
  \/ Len(a) < Len(b)
  \/ /\ Len(a) = Len(b)
     /\ \E i \in 1..Len(a) :
          a[i] < b[i] /\ \A j \in (i + 1)..Len(a) : a[j] = b[j]

LessBits(a, b) == LeqBits(a, b) /\ a # b

ShiftRight(b, n) == IF n >= Len(b) THEN <<>> ELSE SubSeq(b, n + 1, Len(b))

ShiftLeft(b, n) == IF b = <<>> THEN <<>> ELSE [i \in 1..n |-> 0] \o b

\* hi * 2^26 + lo, for writing amounts beyond the range of a numeral
BigNat(hi, lo) ==
  LET l == NatToBits(lo)
  IN  Normalize(l \o [i \in 1..(26 - Len(l)) |-> 0] \o NatToBits(hi))

(***************************************************************************)
(* page.tsx:208  Math.floor(totalLamports * 0.15)                          *)
(* The literal 0.15 is the double 0x1.3333333333333p-3, i.e.               *)
(* 5404319552844595 * 2^-55.  The product of two doubles is the exact      *)
(* product rounded to 53 significant bits, ties to even.                   *)
(***************************************************************************)
DoubleBits == 53

\* the 53-bit significand 0x13333333333333 (thirteen hex digits 3, then 1)
Float015Significand ==
  [i \in 1..DoubleBits |-> IF i = DoubleBits THEN 1
                           ELSE IF (i - 1) % 4 \in {0, 1} THEN 1 ELSE 0]

Float015Exponent == 0 - 55

\* round an exact value sig * 2^exp to the nearest double (ties to even)
RoundToDouble(sig, exp) ==
  IF Len(sig) <= DoubleBits THEN [sig |-> sig, exp |-> exp]
  ELSE LET s    == Len(sig) - DoubleBits
           q    == ShiftRight(sig, s)
           r    == Normalize(SubSeq(sig, 1, s))
           half == ShiftLeft(<<1>>, s - 1)
           up   == LessBits(half, r) \/ (r = half /\ q[1] = 1)
       IN  [sig |-> IF up THEN AddBits(q, <<1>>) ELSE q, exp |-> exp + s]

\* totalLamports * 0.15 in double arithmetic
TimesFloat015(total) ==
  RoundToDouble(MulBits(total, Float015Significand), Float015Exponent)

\* Math.floor of a non-negative double sig * 2^exp
MathFloor(d) ==
  IF d.exp >= 0 THEN ShiftLeft(d.sig, d.exp) ELSE ShiftRight(d.sig, 0 - d.exp)

\* variant: the product by 15 without the division by 100
FeeOfUnscaled(totalLamports) == MulBits(NatToBits(15), totalLamports)

FeeOf(totalLamports) == MathFloor(TimesFloat015(totalLamports))

\* page.tsx:207  selected.reduce((sum, a) => sum + a.lamports, 0)
RECURSIVE SumBits(_)
SumBits(balances) ==
  IF balances = <<>> THEN <<>>
  ELSE AddBits(Head(balances), SumBits(Tail(balances)))

\* page.tsx:274  totalLamports - feeLamports (a number: may be negative)
NetOf(total, fee) ==
  IF LeqBits(fee, total) THEN [neg |-> FALSE, mag |-> SubBits(total, fee)]
  ELSE [neg |-> TRUE, mag |-> SubBits(fee, total)]

(***************************************************************************)
(* Keys, programs and messages                                             *)
(***************************************************************************)
TOKEN_PROGRAM_ID == "TokenkegQfeZyiNwAJbNbGKPFXCWuBvf9Ss623VQ5DA"

ASSOCIATED_TOKEN_PROGRAM_ID == "ATokenGPvbdGVqstVQmcLsNZAqeEbtQaMy63xtto2CXv"

METAPLEX_PROGRAM_ID == "metaqbxxUerdq28cj1RbAqWwTRiWLMsqLoea1PgurZ"

SYSTEM_PROGRAM_ID == "11111111111111111111111111111111"

OTHER_PROGRAM_ID == "OtherProgram"

Undefined == "undefined"

\* account addresses the ledger can report
Addr == {"A1", "A2"}

VARIABLES
  \* SpecFee
  feePc, feeBalances, feeTotal, feeFee, feeNet, feeData,
  \* SpecLib: the argument list, where it is cut into X and Y, the two
  \* thresholds, the results of both functions and which have been called
  libAccounts, libSplit, libMin1, libMin2, libFiltered1, libFiltered2,
  libTotals, libDone,
  \* SpecDetect: detectReclaimableAccounts
  detPc, reclaimableAccounts, detQuery, detPauses,
  \* SpecRescan: the query results both scans are given, the first scan's
  \* result as its caller keeps it, and which scan is running
  scanInputs, firstResult, scanRun,
  \* Spec: the page's React state (page.tsx:21-32)
  connected, wallet, publicAddress, loading, scanning, accounts,
  accountsUndefined, selectedAccounts, totalSOL, status, statusTx, error, autoConnect,
  \* process.env.NEXT_PUBLIC_FEE_RECIPIENT
  feeRecipientEnv,
  \* whether the page component is mounted (the user has not left the page)
  mounted,
  \* SpecEndpoint: the last request the scan endpoint has handled
  lastRequest,
  \* the scan request in flight
  scanPc, scanPubkey,
  \* the reclaimSOL invocation in flight: position and locals
  pc, rWallet, selectedAccountPubkeys, totalLamports, feeLamports,
  instructions, transaction, signedTx, signature, pollIndex, confirmed,
  \* what the invocation has asked of the ledger and the wallet, its last
  \* status reply, how it ended and at which await it ended
  nBlockhash, nSign, nSend, nStatus, lastReply, outcome, endedAt,
  \* user and scan events that happened while the invocation was in flight
  inFlightEvents

feeVars == <<feePc, feeBalances, feeTotal, feeFee, feeNet, feeData>>

libVars ==
  <<libAccounts, libSplit, libMin1, libMin2, libFiltered1, libFiltered2,
    libTotals, libDone>>

rescanVars == <<scanInputs, firstResult, scanRun>>

detVars == <<detPc, reclaimableAccounts, detQuery, detPauses, rescanVars>>

sessionVars ==
  <<connected, wallet, publicAddress, loading, scanning, accounts,
    accountsUndefined, selectedAccounts, totalSOL, status, statusTx, error, autoConnect>>

scanVars == <<scanPc, scanPubkey>>

reclaimVars ==
  <<pc, rWallet, selectedAccountPubkeys, totalLamports, feeLamports,
    instructions, transaction, signedTx, signature, pollIndex, confirmed,
    nBlockhash, nSign, nSend, nStatus, lastReply, outcome, endedAt, inFlightEvents>>

pageVars ==
  <<sessionVars, feeRecipientEnv, mounted, lastRequest, scanVars, reclaimVars>>

vars == <<feeVars, libVars, detVars, pageVars>>

\* value >>> 0 : the low 32 bits
ToUint32(b) == [k \in 1..32 |-> BitAt(b, k)]

\* variant: the high word is left at zero
HighWordZero(b) == [k \in 1..32 |-> 0]

\* Math.floor(value / 0x100000000) of a safe integer
HighWord(b) == [k \in 1..32 |-> BitAt(b, 32 + k)]

RECURSIVE ByteValue(_, _, _)
ByteValue(w, k, j) ==
  IF j = 8 THEN 0 ELSE w[8 * (k - 1) + j + 1] * 2^j + ByteValue(w, k, j + 1)

\* Buffer.writeUInt32LE of a 32-bit word: four bytes, low byte first
WriteUInt32LE(w) == [k \in 1..4 |-> ByteValue(w, k, 0)]

\* page.tsx:221-223
FeeBuffer(fee) == WriteUInt32LE(ToUint32(fee)) \o WriteUInt32LE(HighWord(fee))

(***************************************************************************)
(* SpecFee: the fee plan of one reclaim on two selected balances.          *)
(***************************************************************************)
MaxFeeOffset == 24

\* first balances: around 0, around 2039, around 28633115300 (where the fee
\* reaches 2^32) and around 7.5e15 lamports
FeeBases ==
  { BigNat(0, 0), BigNat(0, 2039), BigNat(426, 44739236),
    BigNat(111848106, 44739230) }

FeeSecond == { BigNat(0, 0), BigNat(0, 5000) }

FeeIdle ==
  /\ feePc = "off"
  /\ feeBalances = <<>>
  /\ feeTotal = <<>>
  /\ feeFee = <<>>
  /\ feeNet = [neg |-> FALSE, mag |-> <<>>]
  /\ feeData = <<>>

FeeInit ==
  /\ feePc = "input"
  /\ \E base \in FeeBases, k \in 0..MaxFeeOffset, second \in FeeSecond :
       feeBalances = <<AddBits(base, NatToBits(k)), second>>
  /\ feeTotal = <<>>
  /\ feeFee = <<>>
  /\ feeNet = [neg |-> FALSE, mag |-> <<>>]
  /\ feeData = <<>>

\* page.tsx:207-208, 221-223 and 272-274
ComputeFeePlan ==
  /\ feePc = "input"
  /\ LET total == SumBits(feeBalances)
         fee   == FeeOf(total)
     IN  /\ feeTotal' = total
         /\ feeFee' = fee
         /\ feeNet' = NetOf(total, fee)
         /\ feeData' = FeeBuffer(fee)
  /\ feePc' = "done"
  /\ UNCHANGED feeBalances
  /\ UNCHANGED <<libVars, detVars, pageVars>>

FeeNext == ComputeFeePlan

(***************************************************************************)
(* SpecLib: filterSignificantAccounts and calculateTotalReclaim            *)
(* (detection-logic).  Lamports are JavaScript numbers: the sum of two of  *)
(* them is the exact sum rounded to the nearest double.                    *)
(***************************************************************************)
MaxLibLen == 3

\* a + b on two non-negative integer-valued doubles
NumberAdd(a, b) == MathFloor(RoundToDouble(AddBits(a, b), 0))

\* part_000:230  minLamports: number = 2000
DEFAULT_MIN_LAMPORTS == 2000

\* an omitted (undefined) argument
NotGiven == [given |-> FALSE, value |-> <<>>]

Given(n) == [given |-> TRUE, value |-> NatToBits(n)]

\* variant: keeps the accounts strictly above the threshold
filterStrictlyAbove(list, minArg) ==
  LET minLamports == IF minArg.given THEN minArg.value
                     ELSE NatToBits(DEFAULT_MIN_LAMPORTS)
  IN  SelectSeq(list, LAMBDA account : LessBits(minLamports, account.lamports))

\* variant: keeps the accounts at or below the threshold
filterAtMost(list, minArg) ==
  LET minLamports == IF minArg.given THEN minArg.value
                     ELSE NatToBits(DEFAULT_MIN_LAMPORTS)
  IN  SelectSeq(list, LAMBDA account : LeqBits(account.lamports, minLamports))

\* part_000:228-233
filterSignificantAccounts(list, minArg) ==
  LET minLamports == IF minArg.given THEN minArg.value
                     ELSE NatToBits(DEFAULT_MIN_LAMPORTS)
  IN  SelectSeq(list, LAMBDA account : LeqBits(minLamports, account.lamports))

\* part_000:244  accounts.reduce((sum, account) => sum + account.lamports, 0)
RECURSIVE ReduceSum(_, _, _)
ReduceSum(list, i, sum) ==
  IF i > Len(list) THEN sum
  ELSE ReduceSum(list, i + 1, NumberAdd(sum, list[i].lamports))

LAMPORTS_PER_SOL == 1000000000

\* part_000:240-249; totalSOL is the double nearest to dividend / divisor
calculateTotalReclaim(list) ==
  LET total == ReduceSum(list, 1, <<>>)
  IN  [totalLamports |-> total,
       totalSOL |-> [dividend |-> total, divisor |-> LAMPORTS_PER_SOL]]

\* balances around the default threshold, and the largest safe integer
LibBalances ==
  { NatToBits(1), NatToBits(1999), NatToBits(2000), NatToBits(2039),
    BigNat(134217727, 67108863) }

LibThresholds == { NotGiven, Given(2000), Given(2039), Given(2040) }

\* lists of distinct accounts: the n-th account has address n
LibLists ==
  UNION { { [n \in 1..len |-> [address |-> n, lamports |-> f[n]]] :
              f \in [1..len -> LibBalances] } : len \in 0..MaxLibLen }

NoTotals ==
  LET none == [totalLamports |-> <<>>,
               totalSOL |-> [dividend |-> <<>>, divisor |-> LAMPORTS_PER_SOL]]
  IN  [x |-> none, y |-> none, xy |-> none]

LibIdle ==
  /\ libAccounts = <<>>
  /\ libSplit = 0
  /\ libMin1 = NotGiven
  /\ libMin2 = NotGiven
  /\ libFiltered1 = <<>>
  /\ libFiltered2 = <<>>
  /\ libTotals = NoTotals
  /\ libDone = [filter |-> TRUE, total |-> TRUE]

LibInit ==
  /\ libAccounts \in LibLists
  /\ libSplit \in 0..Len(libAccounts)
  /\ libMin1 \in LibThresholds
  /\ libMin2 \in LibThresholds
  /\ libFiltered1 = <<>>
  /\ libFiltered2 = <<>>
  /\ libTotals = NoTotals
  /\ libDone = [filter |-> FALSE, total |-> FALSE]

\* filterSignificantAccounts(accounts, m1) and (accounts, m2)
CallFilter ==
  /\ ~libDone.filter
  /\ libFiltered1' = filterSignificantAccounts(libAccounts, libMin1)
  /\ libFiltered2' = filterSignificantAccounts(libAccounts, libMin2)
  /\ libDone' = [libDone EXCEPT !.filter = TRUE]
  /\ UNCHANGED <<libAccounts, libSplit, libMin1, libMin2, libTotals>>
  /\ UNCHANGED <<feeVars, detVars, pageVars>>

\* calculateTotalReclaim on X, on Y and on X followed by Y
CallTotal ==
  /\ ~libDone.total
  /\ libTotals' =
       [x  |-> calculateTotalReclaim(SubSeq(libAccounts, 1, libSplit)),
        y  |-> calculateTotalReclaim(
                 SubSeq(libAccounts, libSplit + 1, Len(libAccounts))),
        xy |-> calculateTotalReclaim(libAccounts)]
  /\ libDone' = [libDone EXCEPT !.total = TRUE]
  /\ UNCHANGED <<libAccounts, libSplit, libMin1, libMin2, libFiltered1,
                 libFiltered2>>
  /\ UNCHANGED <<feeVars, detVars, pageVars>>

LibNext ==
  \/ CallFilter
  \/ CallTotal


(***************************************************************************)
(* SpecDetect: detection-logic, detectReclaimableAccounts (part_000).      *)
(* Each strategy is one step: its ledger query returns (the records are    *)
(* the step's input) and its loop runs to the end.                         *)
(***************************************************************************)
MaxQueryLen == 2

\* an absent number (rentEpoch, info.decimals) in a ledger record
UndefinedNumber == 0 - 1

\* x ?? d
Nullish(x, d) == IF x = UndefinedNumber THEN d ELSE x

SeqsUpTo(S, n) == UNION { [1..k -> S] : k \in 0..n }

\* getParsedTokenAccountsByOwner(wallet, {programId: TOKEN_PROGRAM_ID})
TokenQueryRecords ==
  { [pubkey |-> a, lamports |-> 2039, owner |-> TOKEN_PROGRAM_ID,
     executable |-> FALSE, rentEpoch |-> UndefinedNumber,
     amount |-> m, decimals |-> d] :
      a \in Addr, m \in {"0", "7"}, d \in {0, 6} }

\* getProgramAccounts(ASSOCIATED_TOKEN_PROGRAM_ID, memcmp owner filter)
AtaQueryRecords ==
  { [pubkey |-> a, lamports |-> l, owner |-> ASSOCIATED_TOKEN_PROGRAM_ID,
     executable |-> FALSE, rentEpoch |-> 361] :
      a \in Addr, l \in {0, 2039} }

\* getProgramAccounts(walletAddress)
ProgramQueryRecords ==
  { [pubkey |-> a, lamports |-> k.lamports, owner |-> k.owner,
     executable |-> k.executable, rentEpoch |-> 361] :
      a \in Addr,
      k \in { [lamports |-> 0, owner |-> OTHER_PROGRAM_ID, executable |-> FALSE],
              [lamports |-> 5000, owner |-> OTHER_PROGRAM_ID, executable |-> FALSE],
              [lamports |-> 5000, owner |-> TOKEN_PROGRAM_ID, executable |-> FALSE],
              [lamports |-> 5000, owner |-> METAPLEX_PROGRAM_ID, executable |-> TRUE] } }

\* reclaimableAccounts.push({...})
Entry(account, type, programId) ==
  [address |-> account.pubkey, lamports |-> account.lamports,
   owner |-> account.owner, executable |-> account.executable,
   rentEpoch |-> Nullish(account.rentEpoch, 0),
   type |-> type, programId |-> programId]

\* variant: the test never finds the address
NeverIncluded(list, pubkey) == FALSE

\* reclaimableAccounts.some(a => a.address.equals(pubkey))
IsAlreadyIncluded(list, pubkey) == \E i \in 1..Len(list) : list[i].address = pubkey

THROTTLE_EVERY == 50

\* part_000:35-51  Strategy A loop from record i on; acc = [list, pauses]
RECURSIVE LoopA(_, _, _)
LoopA(q, i, acc) ==
  IF i > Len(q) THEN acc
  ELSE LET pushed == IF q[i].amount = "0"
                     THEN Append(acc.list, Entry(q[i], "token", TOKEN_PROGRAM_ID))
                     ELSE acc.list
           paused == IF Len(pushed) % THROTTLE_EVERY = 0
                     THEN acc.pauses + 1 ELSE acc.pauses
       IN  LoopA(q, i + 1, [list |-> pushed, pauses |-> paused])

\* variant: the first new entry is put at the front of the list
LoopBPrepending(q, i, list) ==
  LET new == SelectSeq(q, LAMBDA r : /\ r.amount = "0"
                                     /\ r.decimals = 0
                                     /\ ~IsAlreadyIncluded(list, r.pubkey))
  IN  IF new = <<>> THEN list
      ELSE <<Entry(new[1], "nft", new[1].owner)>> \o list


\* variant: the second strategy does not test whether the address is listed
LoopBWithoutInclusionTest(q, i, list) ==
  LET new == SelectSeq(q, LAMBDA r : r.amount = "0" /\ r.decimals = 0)
  IN  list \o [k \in 1..Len(new) |-> Entry(new[k], "nft", new[k].owner)]

\* part_000:61-84  Strategy B loop
RECURSIVE LoopB(_, _, _)
LoopB(q, i, list) ==
  IF i > Len(q) THEN list
  ELSE LoopB(q, i + 1,
             IF /\ q[i].amount = "0"
                /\ q[i].decimals = 0
                /\ ~IsAlreadyIncluded(list, q[i].pubkey)
             THEN Append(list, Entry(q[i], "nft", q[i].owner))
             ELSE list)

\* variant: the balance of a record is not looked at
LoopCAnyBalance(q, i, list) ==
  LET new == SelectSeq(q, LAMBDA r : ~IsAlreadyIncluded(list, r.pubkey))
  IN  list \o [k \in 1..Len(new) |->
                 Entry(new[k], "associated-token", new[k].owner)]

\* part_000:106-124  Strategy C loop
RECURSIVE LoopC(_, _, _)
LoopC(q, i, list) ==
  IF i > Len(q) THEN list
  ELSE LoopC(q, i + 1,
             IF q[i].lamports > 0 /\ ~IsAlreadyIncluded(list, q[i].pubkey)
             THEN Append(list, Entry(q[i], "associated-token", q[i].owner))
             ELSE list)

\* part_000:192-201  the type the loop of Strategy D works out
TypeOfProgram(programId) ==
  IF programId = TOKEN_PROGRAM_ID THEN "token"
  ELSE IF programId = ASSOCIATED_TOKEN_PROGRAM_ID THEN "associated-token"
  ELSE IF programId = METAPLEX_PROGRAM_ID THEN "metadata"
  ELSE "unknown"

\* part_000:184-213  Strategy D loop: the entry is pushed with type "unknown"
RECURSIVE LoopD(_, _, _)
LoopD(q, i, list) ==
  IF i > Len(q) THEN list
  ELSE LoopD(q, i + 1,
             IF ~IsAlreadyIncluded(list, q[i].pubkey) /\ q[i].lamports > 0
             THEN Append(list, Entry(q[i], "unknown", q[i].owner))
             ELSE list)

\* no recorded query results
NoInputs == [a |-> <<>>, b |-> <<>>, c |-> <<>>, d |-> <<>>]

RescanIdle ==
  /\ scanInputs = NoInputs
  /\ firstResult = <<>>
  /\ scanRun = 0

DetIdle ==
  /\ detPc = "off"
  /\ reclaimableAccounts = <<>>
  /\ detQuery = <<>>
  /\ detPauses = 0
  /\ RescanIdle

\* part_000:24
DetInit ==
  /\ detPc = "A"
  /\ reclaimableAccounts = <<>>
  /\ detQuery = <<>>
  /\ detPauses = 0
  /\ RescanIdle

\* part_000:29-51  the first query has returned q
StepA(q) ==
  /\ detPc = "A"
  /\ LET r == LoopA(q, 1, [list |-> reclaimableAccounts, pauses |-> 0])
     IN  /\ reclaimableAccounts' = r.list
         /\ detPauses' = r.pauses
         /\ detQuery' = q
  /\ detPc' = "B"
  /\ UNCHANGED <<feeVars, libVars, pageVars, rescanVars>>

StrategyA == \E q \in SeqsUpTo(TokenQueryRecords, MaxQueryLen) : StepA(q)

\* part_000:55-84  the second query has returned q
StepB(q) ==
  /\ detPc = "B"
  /\ reclaimableAccounts' = LoopB(q, 1, reclaimableAccounts)
  /\ detQuery' = q
  /\ detPc' = "C"
  /\ UNCHANGED detPauses
  /\ UNCHANGED <<feeVars, libVars, pageVars, rescanVars>>

StrategyB == \E q \in SeqsUpTo(TokenQueryRecords, MaxQueryLen) : StepB(q)

\* part_000:92-124  the third query has returned q
StepC(q) ==
  /\ detPc = "C"
  /\ reclaimableAccounts' = LoopC(q, 1, reclaimableAccounts)
  /\ detQuery' = q
  /\ detPc' = "D"
  /\ UNCHANGED detPauses
  /\ UNCHANGED <<feeVars, libVars, pageVars, rescanVars>>

StrategyC == \E q \in SeqsUpTo(AtaQueryRecords, MaxQueryLen) : StepC(q)

\* part_000:169-215  getAccountInfo (result unused), the last query has
\* returned q, return
StepD(q) ==
  /\ detPc = "D"
  /\ reclaimableAccounts' = LoopD(q, 1, reclaimableAccounts)
  /\ detQuery' = q
  /\ detPc' = "returned"
  /\ UNCHANGED detPauses
  /\ UNCHANGED <<feeVars, libVars, pageVars, rescanVars>>

StrategyD == \E q \in SeqsUpTo(ProgramQueryRecords, MaxQueryLen) : StepD(q)

\* part_000:216-219  a ledger query rejects: the error is rethrown and the
\* accounts found so far are lost to the caller
DetectThrow ==
  /\ detPc \in {"A", "B", "C", "D"}
  /\ detPc' = "thrown"
  /\ reclaimableAccounts' = <<>>
  /\ detQuery' = <<>>
  /\ UNCHANGED detPauses
  /\ UNCHANGED <<feeVars, libVars, pageVars, rescanVars>>

DetNext == StrategyA \/ StrategyB \/ StrategyC \/ StrategyD \/ DetectThrow

(***************************************************************************)
(* SpecRescan: detectReclaimableAccounts invoked twice, the second time    *)
(* after the first has returned, the four ledger queries answering the     *)
(* second invocation exactly as they answered the first.                   *)
(***************************************************************************)
MaxRescanLen == 2

\* the records the repeated queries are made of: per query two of the
\* records above, on both addresses
RescanTokenRecords ==
  { r \in TokenQueryRecords :
      r.amount = "0" /\ r.decimals = (IF r.pubkey = "A1" THEN 0 ELSE 6) }

RescanAtaRecords == { r \in AtaQueryRecords : r.lamports > 0 }

RescanProgramRecords ==
  { r \in ProgramQueryRecords :
      /\ r.lamports > 0
      /\ r.owner = (IF r.pubkey = "A1" THEN OTHER_PROGRAM_ID ELSE TOKEN_PROGRAM_ID) }

\* part_000:20-24  the first invocation starts
RescanInit ==
  /\ detPc = "A"
  /\ reclaimableAccounts = <<>>
  /\ detQuery = <<>>
  /\ detPauses = 0
  /\ scanInputs \in [a : SeqsUpTo(RescanTokenRecords, MaxRescanLen),
                     b : SeqsUpTo(RescanTokenRecords, MaxRescanLen),
                     c : SeqsUpTo(RescanAtaRecords, MaxRescanLen),
                     d : SeqsUpTo(RescanProgramRecords, MaxRescanLen)]
  /\ firstResult = <<>>
  /\ scanRun = 1

ReplayA == StepA(scanInputs.a)

ReplayB == StepB(scanInputs.b)

ReplayC == StepC(scanInputs.c)

ReplayD == StepD(scanInputs.d)

\* variant: the list is shared by the invocations and never emptied
DetectAgainKeepingList ==
  /\ detPc = "returned"
  /\ scanRun = 1
  /\ firstResult' = reclaimableAccounts
  /\ scanRun' = 2
  /\ detPc' = "A"
  /\ detQuery' = <<>>
  /\ detPauses' = 0
  /\ UNCHANGED <<reclaimableAccounts, scanInputs>>
  /\ UNCHANGED <<feeVars, libVars, pageVars>>

\* part_003:17-22, part_000:20-24  the first invocation has returned and
\* its result is with the caller; the function is invoked again and makes
\* its own reclaimableAccounts
DetectAgain ==
  /\ detPc = "returned"
  /\ scanRun = 1
  /\ firstResult' = reclaimableAccounts
  /\ scanRun' = 2
  /\ detPc' = "A"
  /\ reclaimableAccounts' = <<>>
  /\ detQuery' = <<>>
  /\ detPauses' = 0
  /\ UNCHANGED scanInputs
  /\ UNCHANGED <<feeVars, libVars, pageVars>>

RescanNext == ReplayA \/ ReplayB \/ ReplayC \/ ReplayD \/ DetectAgain


(***************************************************************************)
(* Spec: the page session (src/app/page.tsx).  A step is what runs between *)
(* two awaits: a click handler up to its first await, or the continuation  *)
(* of an async handler when the awaited call returns or throws.            *)
(***************************************************************************)
NoWallet == "null"

\* the key of the wallet extension (window.solana)
WalletKey == "W1"

FeeRecipientKey == "F1"

\* variant: any non-empty string is taken as a key
ParsesAnyNonEmpty(s) == s # ""

\* strings that new PublicKey(...) accepts (32 bytes in base58)
ParsesAsPublicKey(s) == s \in {"W1", "W2", "F1", "ShortKey"} \cup Addr

\* length of the base58 form: a key with leading zero bytes is shorter
KeyStringLength(s) == IF s = "ShortKey" THEN 43 ELSE 44

\* String.prototype.trim
Trim(s) == IF s = " W2 " THEN "W2" ELSE s

\* what the user can type into the address field
AddressInputs == {"W1", " W2 ", "ShortKey", "garbage"}

\* page.tsx:98-105
isValidSolanaAddress(address) ==
  /\ ParsesAsPublicKey(Trim(address))
  /\ KeyStringLength(Trim(address)) = 44

\* x ?? d on strings
NullishString(x, d) == IF x = Undefined THEN d ELSE x

\* the account lists a scan can answer (address and lamports of each entry
\* of a detectReclaimableAccounts result)
ScanLists ==
  LET a1 == [address |-> "A1", lamports |-> 2039]
      a2 == [address |-> "A2", lamports |-> 5000]
      a3 == [address |-> "A2", lamports |-> 1000]
  IN  { <<>>, <<a1>>, <<a2>>, <<a3>>, <<a1, a2>>, <<a1, a1>> }

\* outcomes of detectReclaimableAccounts as seen by the endpoint
DetectOutcomes ==
  { [threw |-> TRUE, accounts |-> <<>>] }
    \cup { [threw |-> FALSE, accounts |-> l] : l \in ScanLists }

\* detectReclaimableAccounts was not called
NoQuery == "none"

\* variant: the key is parsed after the detection has run on the raw string
POSTDetectingFirst(pubkey, detect) ==
  IF pubkey \in {Undefined, ""}
  THEN [code |-> 400, hasAccounts |-> FALSE, accounts |-> <<>>,
        detectCalledWith |-> NoQuery]
  ELSE IF detect.threw \/ ~ParsesAsPublicKey(pubkey)
       THEN [code |-> 500, hasAccounts |-> FALSE, accounts |-> <<>>,
             detectCalledWith |-> pubkey]
  ELSE [code |-> 200, hasAccounts |-> TRUE, accounts |-> detect.accounts,
        detectCalledWith |-> pubkey]

\* part_003:6-25  POST /api/scan-address: the response body, and the key
\* detectReclaimableAccounts was called with
POST(pubkey, detect) ==
  IF pubkey \in {Undefined, ""}
  THEN [code |-> 400, hasAccounts |-> FALSE, accounts |-> <<>>,
        detectCalledWith |-> NoQuery]
  ELSE IF ~ParsesAsPublicKey(pubkey)
       THEN [code |-> 500, hasAccounts |-> FALSE, accounts |-> <<>>,
             detectCalledWith |-> NoQuery]
  ELSE IF detect.threw
       THEN [code |-> 500, hasAccounts |-> FALSE, accounts |-> <<>>,
             detectCalledWith |-> pubkey]
  ELSE [code |-> 200, hasAccounts |-> TRUE, accounts |-> detect.accounts,
        detectCalledWith |-> pubkey]

\* no request handled yet
NoRequest == [pubkey |-> "none", code |-> 0, detectCalledWith |-> NoQuery]

\* the pubkey field of a request body: absent, empty, malformed or a key
RequestPubkeys == {Undefined, "", "garbage", " W2 ", "W1", "A1"}

\* reduce((sum, a) => sum + a.lamports, 0)
RECURSIVE SumLamports(_)
SumLamports(list) ==
  IF list = <<>> THEN 0 ELSE Head(list).lamports + SumLamports(Tail(list))

AddressesOf(list) == { list[k].address : k \in 1..Len(list) }

\* variant: the list is not filtered by the selection
FilterNothing(list, selected) == list

\* page.tsx:203-205  accounts.filter(a => selectedAccounts.has(a.address))
FilterSelected(list, selected) ==
  SelectSeq(list, LAMBDA a : a.address \in selected)

\* page.tsx:208 on the page's amounts
FeeLamportsOf(total) == BitsToNat(FeeOf(NatToBits(total)))

\* spl-token createCloseAccountInstruction(account, destination, authority)
createCloseAccountInstruction(account, destination, authority) ==
  [programId |-> TOKEN_PROGRAM_ID,
   keys |-> << [pubkey |-> account, isSigner |-> FALSE, isWritable |-> TRUE],
               [pubkey |-> destination, isSigner |-> FALSE, isWritable |-> TRUE],
               [pubkey |-> authority, isSigner |-> TRUE, isWritable |-> FALSE] >>,
   data |-> <<9>>]

\* page.tsx:211-219
CloseInstructions(selected, owner) ==
  [k \in 1..Len(selected) |->
     createCloseAccountInstruction(selected[k].address, owner, owner)]

\* variant: sender and recipient swapped
FeeTransferSwapped(owner, recipient, fee) ==
  [programId |-> SYSTEM_PROGRAM_ID,
   keys |-> << [pubkey |-> recipient, isSigner |-> TRUE, isWritable |-> TRUE],
               [pubkey |-> owner, isSigner |-> FALSE, isWritable |-> TRUE] >>,
   data |-> <<2, 0, 0, 0>> \o FeeBuffer(NatToBits(fee))]

\* page.tsx:225-232  the SystemProgram transfer (instruction index 2)
FeeTransferInstruction(owner, recipient, fee) ==
  [programId |-> SYSTEM_PROGRAM_ID,
   keys |-> << [pubkey |-> owner, isSigner |-> TRUE, isWritable |-> TRUE],
               [pubkey |-> recipient, isSigner |-> FALSE, isWritable |-> TRUE] >>,
   data |-> <<2, 0, 0, 0>> \o FeeBuffer(NatToBits(fee))]

\* page.tsx:211-232
BuildInstructions(selected, owner, recipient, fee) ==
  Append(CloseInstructions(selected, owner),
         FeeTransferInstruction(owner, recipient, fee))

\* page.tsx:256  for (let i = 0; i < 60; i++)
MAX_POLLS == 60

\* variant: i <= 60
LoopContinuesInclusive(k) == k <= MAX_POLLS

LoopContinues(k) == k < MAX_POLLS

\* replies of connection.getSignatureStatus(signature)
NoReply ==
  [threw |-> FALSE, present |-> FALSE, confirmationStatus |-> "none", err |-> "none"]

StatusReplies ==
  { [threw |-> TRUE, present |-> FALSE, confirmationStatus |-> "", err |-> "none"],
    [threw |-> FALSE, present |-> FALSE, confirmationStatus |-> "", err |-> "none"],
    [threw |-> FALSE, present |-> TRUE, confirmationStatus |-> "processed", err |-> "none"],
    [threw |-> FALSE, present |-> TRUE, confirmationStatus |-> "confirmed", err |-> "none"],
    [threw |-> FALSE, present |-> TRUE, confirmationStatus |-> "finalized", err |-> "none"],
    [threw |-> FALSE, present |-> TRUE, confirmationStatus |-> "confirmed",
     err |-> "InstructionError"] }

\* variant: any reported status counts as confirmed
IsAnyStatusReply(r) == ~r.threw /\ r.present

\* page.tsx:259-261
IsConfirmedReply(r) ==
  /\ ~r.threw
  /\ r.present
  /\ r.confirmationStatus = "confirmed" \/ r.confirmationStatus = "finalized"

MaxInFlightEvents == 1

reclaimCore ==
  <<pc, rWallet, selectedAccountPubkeys, totalLamports, feeLamports,
    instructions, transaction, signedTx, signature, pollIndex, confirmed,
    nBlockhash, nSign, nSend, nStatus, lastReply, outcome, endedAt>>

\* a user or scan event: it leaves the reclaim invocation alone
PageEvent ==
  /\ pc = "idle" \/ inFlightEvents < MaxInFlightEvents
  /\ inFlightEvents' = IF pc = "idle" THEN 0 ELSE inFlightEvents + 1
  /\ UNCHANGED reclaimCore
  /\ UNCHANGED <<feeRecipientEnv, mounted>>
  /\ UNCHANGED <<feeVars, libVars, detVars>>

Event == PageEvent /\ UNCHANGED lastRequest

\* the page renders (an undefined accounts list makes the render throw; a
\* page the user has left is unmounted)
Rendered == mounted /\ ~accountsUndefined

ListRendered == Rendered /\ publicAddress # "" /\ Len(accounts) > 0

\* page.tsx:21-37  useState defaults
PageInit ==
  /\ connected = FALSE
  /\ wallet = NoWallet
  /\ publicAddress = ""
  /\ loading = FALSE
  /\ scanning = FALSE
  /\ accounts = <<>>
  /\ accountsUndefined = FALSE
  /\ selectedAccounts = {}
  /\ totalSOL = 0
  /\ status = ""
  /\ statusTx = <<>>
  /\ error = ""
  /\ autoConnect = "pending"
  /\ feeRecipientEnv \in {FeeRecipientKey, Undefined, "garbage"}
  /\ mounted = TRUE
  /\ lastRequest = NoRequest
  /\ scanPc = "idle"
  /\ scanPubkey = ""
  /\ pc = "idle"
  /\ rWallet = NoWallet
  /\ selectedAccountPubkeys = <<>>
  /\ totalLamports = 0
  /\ feeLamports = 0
  /\ instructions = <<>>
  /\ transaction = <<>>
  /\ signedTx = FALSE
  /\ signature = ""
  /\ pollIndex = 0
  /\ confirmed = FALSE
  /\ nBlockhash = 0
  /\ nSign = 0
  /\ nSend = 0
  /\ nStatus = 0
  /\ lastReply = NoReply
  /\ outcome = "none"
  /\ endedAt = "none"
  /\ inFlightEvents = 0

\* the page is not running (SpecFee, SpecDetect)
PageIdle ==
  /\ PageInit
  /\ feeRecipientEnv = FeeRecipientKey

\* page.tsx:47-58, 73-76  the mount effect's trusted connect settles;
\* the handler closed over the first render, where wallet is null
checkWalletConnection ==
  /\ autoConnect = "pending"
  /\ Rendered
  /\ Event
  /\ autoConnect' = "done"
  /\ \E result \in {"noProvider", "resolved", "rejected"} :
       \/ /\ result = "noProvider"
          /\ UNCHANGED <<wallet, connected, publicAddress>>
       \/ /\ result = "resolved"
          /\ wallet' = WalletKey
          /\ connected' = TRUE
          /\ publicAddress' = NullishString(Undefined, "")
       \/ /\ result = "rejected"
          /\ connected' = FALSE
          /\ UNCHANGED <<wallet, publicAddress>>
  /\ UNCHANGED <<loading, scanning, accounts, accountsUndefined,
                 selectedAccounts, totalSOL, status, statusTx, error, scanVars>>

\* page.tsx:78-91  the Connect button (shown while not connected)
connectWallet ==
  /\ Rendered
  /\ ~connected
  /\ Event
  /\ \E result \in {"noProvider", "resolved", "rejected"} :
       \/ /\ result = "noProvider"
          /\ error' = "Phantom wallet not found. Please install it."
          /\ UNCHANGED <<wallet, connected>>
       \/ /\ result = "resolved"
          /\ wallet' = WalletKey
          /\ connected' = TRUE
          /\ error' = ""
       \/ /\ result = "rejected"
          /\ error' = "Failed to connect wallet"
          /\ UNCHANGED <<wallet, connected>>
  /\ UNCHANGED <<publicAddress, loading, scanning, accounts, accountsUndefined,
                 selectedAccounts, totalSOL, status, statusTx, autoConnect, scanVars>>

\* page.tsx:93-96 and 338-341  the Disconnect button: disconnectWallet();
\* clearAddress()
disconnectWallet ==
  /\ Rendered
  /\ connected
  /\ Event
  /\ wallet' = NoWallet
  /\ connected' = FALSE
  /\ publicAddress' = ""
  /\ accounts' = <<>>
  /\ selectedAccounts' = {}
  /\ totalSOL' = 0
  /\ status' = ""
  /\ statusTx' = <<>>
  /\ UNCHANGED <<loading, scanning, accountsUndefined, error, autoConnect, scanVars>>

\* page.tsx:107-120  Load Address (disabled while the trimmed input is empty)
handleAddressSubmit ==
  /\ Rendered
  /\ Event
  /\ \E addressInput \in AddressInputs :
       /\ Trim(addressInput) # ""
       /\ IF ~isValidSolanaAddress(addressInput)
          THEN /\ error' = "Invalid Solana address. Please check and try again."
               /\ UNCHANGED publicAddress
          ELSE /\ publicAddress' = Trim(addressInput)
               /\ error' = ""
  /\ UNCHANGED <<connected, wallet, loading, scanning, accounts, accountsUndefined,
                 selectedAccounts, totalSOL, status, statusTx, autoConnect, scanVars>>

\* page.tsx:313-318  Use Connected Wallet (shown while connected && wallet)
loadConnectedWallet ==
  /\ Rendered
  /\ connected /\ wallet # NoWallet
  /\ Event
  /\ publicAddress' = wallet
  /\ error' = ""
  /\ UNCHANGED <<connected, wallet, loading, scanning, accounts, accountsUndefined,
                 selectedAccounts, totalSOL, status, statusTx, autoConnect, scanVars>>

\* page.tsx:122-128  Clear (shown while publicAddress is set)
clearAddress ==
  /\ Rendered
  /\ publicAddress # ""
  /\ Event
  /\ publicAddress' = ""
  /\ accounts' = <<>>
  /\ selectedAccounts' = {}
  /\ totalSOL' = 0
  /\ status' = ""
  /\ statusTx' = <<>>
  /\ UNCHANGED <<connected, wallet, loading, scanning, accountsUndefined, error,
                 autoConnect, scanVars>>

\* page.tsx:130-143  Scan for Accounts (shown while publicAddress is set,
\* disabled while scanning): up to the fetch
scanAccounts ==
  /\ Rendered
  /\ publicAddress # ""
  /\ ~scanning
  /\ scanPc = "idle"
  /\ Event
  /\ scanning' = TRUE
  /\ error' = ""
  /\ status' = "Scanning wallet for empty token accounts..."
  /\ statusTx' = <<>>
  /\ scanPc' = "fetch"
  /\ scanPubkey' = publicAddress
  /\ UNCHANGED <<connected, wallet, publicAddress, loading, accounts,
                 accountsUndefined, selectedAccounts, totalSOL, autoConnect>>

\* page.tsx:145-160  the fetch settles: the endpoint's body, or a rejection;
\* the setters of an unmounted page have no effect
ScanReply(logged) ==
  /\ scanPc = "fetch"
  /\ PageEvent
  /\ scanPc' = "idle"
  /\ scanPubkey' = ""
  /\ \/ \* fetch or response.json() rejects
        /\ IF mounted
           THEN /\ error' = "Error scanning accounts"
                /\ status' = ""
                /\ statusTx' = <<>>
                /\ scanning' = FALSE
           ELSE UNCHANGED <<error, status, statusTx, scanning>>
        /\ UNCHANGED <<accounts, accountsUndefined, totalSOL, lastRequest>>
     \/ \E detect \in DetectOutcomes :
          LET data == POST(scanPubkey, detect)
          IN  /\ lastRequest' =
                   IF logged
                   THEN [pubkey |-> scanPubkey, code |-> data.code,
                         detectCalledWith |-> data.detectCalledWith]
                   ELSE lastRequest
              /\ IF ~mounted
                 THEN UNCHANGED <<accounts, accountsUndefined, totalSOL, status,
                                  statusTx, error, scanning>>
                 ELSE IF data.hasAccounts
                 THEN /\ accounts' = data.accounts
                      /\ totalSOL' = SumLamports(data.accounts)
                      /\ status' = "Found empty accounts"
                      /\ statusTx' = <<>>
                      /\ scanning' = FALSE
                      /\ UNCHANGED <<accountsUndefined, error>>
                 ELSE \* setAccounts(undefined), then reduce throws
                      /\ accounts' = <<>>
                      /\ accountsUndefined' = TRUE
                      /\ error' = "Error scanning accounts"
                      /\ status' = ""
                      /\ statusTx' = <<>>
                      /\ scanning' = FALSE
                      /\ UNCHANGED totalSOL
  /\ UNCHANGED <<connected, wallet, publicAddress, loading, selectedAccounts,
                 autoConnect>>

ScanResponse == ScanReply(FALSE)

\* the same step, seen from the endpoint
LoggedScanResponse == ScanReply(TRUE)

\* part_003:6-25  a request of another client of the endpoint
DirectRequest ==
  /\ \E pubkey \in RequestPubkeys, detect \in DetectOutcomes :
       LET data == POST(pubkey, detect)
       IN  lastRequest' = [pubkey |-> pubkey, code |-> data.code,
                           detectCalledWith |-> data.detectCalledWith]
  /\ UNCHANGED <<sessionVars, feeRecipientEnv, mounted, scanVars, reclaimVars>>
  /\ UNCHANGED <<feeVars, libVars, detVars>>

\* the user leaves the page: the component unmounts; nothing in the code
\* runs on unmount (no effect cleanup, no abort signal)
navigateAway ==
  /\ mounted
  /\ mounted' = FALSE
  /\ UNCHANGED <<sessionVars, feeRecipientEnv, lastRequest, scanVars, reclaimVars>>
  /\ UNCHANGED <<feeVars, libVars, detVars>>

\* page.tsx:163-171  a click on a listed account
toggleSelectAccount ==
  /\ ListRendered
  /\ Event
  /\ \E address \in AddressesOf(accounts) :
       selectedAccounts' = IF address \in selectedAccounts
                           THEN selectedAccounts \ {address}
                           ELSE selectedAccounts \cup {address}
  /\ UNCHANGED <<connected, wallet, publicAddress, loading, scanning, accounts,
                 accountsUndefined, totalSOL, status, statusTx, error, autoConnect, scanVars>>

\* page.tsx:173-175
selectAll ==
  /\ ListRendered
  /\ Event
  /\ selectedAccounts' = AddressesOf(accounts)
  /\ UNCHANGED <<connected, wallet, publicAddress, loading, scanning, accounts,
                 accountsUndefined, totalSOL, status, statusTx, error, autoConnect, scanVars>>

\* page.tsx:177-179
deselectAll ==
  /\ ListRendered
  /\ Event
  /\ selectedAccounts' = {}
  /\ UNCHANGED <<connected, wallet, publicAddress, loading, scanning, accounts,
                 accountsUndefined, totalSOL, status, statusTx, error, autoConnect, scanVars>>

(***************************************************************************)
(* reclaimSOL (page.tsx:182-291)                                           *)
(***************************************************************************)
\* the Reclaim button is rendered with the results (page.tsx:478, 628-632)
ReclaimButtonRendered == ListRendered

\* a transaction id as sendRawTransaction returns it: the base58 form of a
\* 64-byte signature, 88 characters (here numbered by position)
SignatureChars(sig) == IF sig = "" THEN <<>> ELSE [k \in 1..88 |-> k]

\* String.prototype.slice(from, to) with 0 <= from <= to
Slice(s, from, to) ==
  SubSeq(s, from + 1, IF to < Len(s) THEN to ELSE Len(s))

\* page.tsx:277-279  the part of the status message that shows the
\* transaction: `Tx: ${signature.slice(0, 20)}...`
StatusTxOf(newStatus, sig) ==
  IF newStatus \in {"Success! Reclaimed", "Transaction submitted! Check Solscan"}
  THEN Slice(SignatureChars(sig), 0, 20)
  ELSE <<>>

\* state setters of the running invocation; once the page has stopped
\* rendering they have no effect
SetByReclaim(newStatus, newError, newLoading, clearLists) ==
  IF accountsUndefined \/ ~mounted
  THEN UNCHANGED <<status, statusTx, error, loading, accounts, selectedAccounts, totalSOL>>
  ELSE /\ status' = newStatus
       /\ statusTx' = StatusTxOf(newStatus, signature)
       /\ error' = newError
       /\ loading' = newLoading
       /\ IF clearLists
          THEN /\ selectedAccounts' = {}
               /\ accounts' = <<>>
               /\ totalSOL' = 0
          ELSE UNCHANGED <<accounts, selectedAccounts, totalSOL>>

\* the invocation is over: its locals are gone
EndAttempt(result) ==
  /\ pc' = "idle"
  /\ outcome' = result
  /\ endedAt' = pc
  /\ rWallet' = NoWallet
  /\ selectedAccountPubkeys' = <<>>
  /\ totalLamports' = 0
  /\ feeLamports' = 0
  /\ instructions' = <<>>
  /\ transaction' = <<>>
  /\ signedTx' = FALSE
  /\ signature' = ""
  /\ pollIndex' = 0
  /\ confirmed' = FALSE
  /\ nBlockhash' = 0
  /\ nSign' = 0
  /\ nSend' = 0
  /\ nStatus' = 0
  /\ inFlightEvents' = 0

\* variant: the failure path does not release the loading flag
CatchKeepingLoading ==
  /\ SetByReclaim("", "Transaction failed", loading, FALSE)
  /\ EndAttempt("Failed")

\* variant: the catch also clears the lists
CatchClearingLists ==
  /\ SetByReclaim("", "Transaction failed", FALSE, TRUE)
  /\ EndAttempt("Failed")

\* page.tsx:285-290  catch and finally
Catch ==
  /\ SetByReclaim("", "Transaction failed", FALSE, FALSE)
  /\ EndAttempt("Failed")

\* page.tsx:272-284, 288-290  after the loop
Finish(isConfirmed) ==
  /\ SetByReclaim(IF isConfirmed THEN "Success! Reclaimed"
                  ELSE "Transaction submitted! Check Solscan", error, FALSE, TRUE)
  /\ EndAttempt(IF isConfirmed THEN "Confirmed" ELSE "TimedOut")

unchangedByReclaim ==
  /\ UNCHANGED <<connected, wallet, publicAddress, scanning, accountsUndefined,
                 autoConnect, scanVars, feeRecipientEnv, mounted,
                 lastRequest>>
  /\ UNCHANGED <<feeVars, libVars, detVars>>

\* variant: the wallet is never found to differ from the address
WalletNeverDiffers(w, address) == FALSE

\* page.tsx:188  wallet.toString() !== publicAddress
WalletDiffers(w, address) == w # address

\* page.tsx:182-234  the click, up to the await of getLatestBlockhash
reclaimSOL ==
  /\ pc = "idle"
  /\ ReclaimButtonRendered
  /\ ~loading
  /\ unchangedByReclaim
  /\ IF wallet = NoWallet \/ ~connected
     THEN /\ error' = "Please connect your wallet first to claim SOL"
          /\ UNCHANGED <<status, statusTx, loading, accounts, selectedAccounts, totalSOL>>
          /\ UNCHANGED <<reclaimCore, inFlightEvents>>
     ELSE IF WalletDiffers(wallet, publicAddress)
     THEN /\ error' = "Connected wallet must match the scanned address to claim"
          /\ UNCHANGED <<status, statusTx, loading, accounts, selectedAccounts, totalSOL>>
          /\ UNCHANGED <<reclaimCore, inFlightEvents>>
     ELSE IF Cardinality(selectedAccounts) = 0
     THEN /\ error' = "Please select at least one account"
          /\ UNCHANGED <<status, statusTx, loading, accounts, selectedAccounts, totalSOL>>
          /\ UNCHANGED <<reclaimCore, inFlightEvents>>
     ELSE LET selected  == FilterSelected(accounts, selectedAccounts)
              total     == SumLamports(selected)
              fee       == FeeLamportsOf(total)
              recipient == NullishString(feeRecipientEnv, "")
          IN  /\ lastReply' = NoReply
              /\ IF ~ParsesAsPublicKey(recipient)
                 THEN \* new PublicKey throws
                      Catch
                 ELSE /\ SetByReclaim("Preparing transaction...", "", TRUE, FALSE)
                      /\ pc' = "blockhash"
                      /\ outcome' = "none"
                      /\ endedAt' = "none"
                      /\ rWallet' = wallet
                      /\ selectedAccountPubkeys' = selected
                      /\ totalLamports' = total
                      /\ feeLamports' = fee
                      /\ instructions' =
                           BuildInstructions(selected, wallet, recipient, fee)
                      /\ nBlockhash' = 1
                      /\ inFlightEvents' = 0
                      /\ UNCHANGED <<transaction, signedTx, signature, pollIndex,
                                     confirmed, nSign, nSend, nStatus>>

\* variant: the transaction is sent without asking the wallet to sign
BlockhashReplySendsUnsigned ==
  /\ pc = "blockhash"
  /\ unchangedByReclaim
  /\ \/ /\ Catch
        /\ UNCHANGED lastReply
     \/ /\ transaction' = instructions
        /\ SetByReclaim("Sending transaction...", error, loading, FALSE)
        /\ nSend' = nSend + 1
        /\ pc' = "send"
        /\ UNCHANGED <<rWallet, selectedAccountPubkeys, totalLamports, feeLamports,
                       instructions, signedTx, signature, pollIndex, confirmed,
                       nBlockhash, nSign, nStatus, lastReply, outcome, endedAt,
                       inFlightEvents>>

\* page.tsx:234-244  getLatestBlockhash settles; the transaction is built
\* and handed to the wallet
BlockhashReply ==
  /\ pc = "blockhash"
  /\ unchangedByReclaim
  /\ \/ /\ Catch
        /\ UNCHANGED lastReply
     \/ /\ transaction' = instructions
        /\ SetByReclaim("Waiting for wallet signature...", error, loading, FALSE)
        /\ nSign' = nSign + 1
        /\ pc' = "sign"
        /\ UNCHANGED <<rWallet, selectedAccountPubkeys, totalLamports, feeLamports,
                       instructions, signedTx, signature, pollIndex, confirmed,
                       nBlockhash, nSend, nStatus, lastReply, outcome, endedAt,
                       inFlightEvents>>

\* page.tsx:244-250  signTransaction settles (signed, or rejected by the
\* user); the signed transaction is sent
SignReply ==
  /\ pc = "sign"
  /\ unchangedByReclaim
  /\ \/ /\ Catch
        /\ UNCHANGED lastReply
     \/ /\ signedTx' = TRUE
        /\ SetByReclaim("Sending transaction...", error, loading, FALSE)
        /\ nSend' = nSend + 1
        /\ pc' = "send"
        /\ UNCHANGED <<rWallet, selectedAccountPubkeys, totalLamports, feeLamports,
                       instructions, transaction, signature, pollIndex, confirmed,
                       nBlockhash, nSign, nStatus, lastReply, outcome, endedAt,
                       inFlightEvents>>

\* variant: a failed submission is tried once more
SendReplyRetriesOnce ==
  /\ pc = "send"
  /\ unchangedByReclaim
  /\ \/ /\ nSend >= 2
        /\ Catch
        /\ UNCHANGED lastReply
     \/ /\ nSend < 2
        /\ nSend' = nSend + 1
        /\ UNCHANGED <<sessionVars, pc, rWallet, selectedAccountPubkeys,
                       totalLamports, feeLamports, instructions, transaction,
                       signedTx, signature, pollIndex, confirmed, nBlockhash,
                       nSign, nStatus, lastReply, outcome, endedAt,
                       inFlightEvents>>
     \/ /\ signature' = "sig"
        /\ SetByReclaim("Confirming transaction...", error, loading, FALSE)
        /\ confirmed' = FALSE
        /\ pollIndex' = 0
        /\ nStatus' = nStatus + 1
        /\ pc' = "poll"
        /\ UNCHANGED <<rWallet, selectedAccountPubkeys, totalLamports, feeLamports,
                       instructions, transaction, signedTx, nBlockhash, nSign,
                       nSend, lastReply, outcome, endedAt, inFlightEvents>>

\* page.tsx:247-258  sendRawTransaction settles; the loop starts
SendReply ==
  /\ pc = "send"
  /\ unchangedByReclaim
  /\ \/ /\ Catch
        /\ UNCHANGED lastReply
     \/ /\ signature' = "sig"
        /\ SetByReclaim("Confirming transaction...", error, loading, FALSE)
        /\ confirmed' = FALSE
        /\ pollIndex' = 0
        /\ IF LoopContinues(0)
           THEN /\ nStatus' = nStatus + 1
                /\ pc' = "poll"
           ELSE /\ pc' = "wait"
                /\ UNCHANGED nStatus
        /\ UNCHANGED <<rWallet, selectedAccountPubkeys, totalLamports, feeLamports,
                       instructions, transaction, signedTx, nBlockhash, nSign,
                       nSend, lastReply, outcome, endedAt, inFlightEvents>>

\* page.tsx:258-269  getSignatureStatus settles
PollReply ==
  /\ pc = "poll"
  /\ unchangedByReclaim
  /\ \E reply \in StatusReplies :
       /\ lastReply' = reply
       /\ IF IsConfirmedReply(reply)
          THEN Finish(TRUE)
          ELSE /\ pc' = "wait"
               /\ UNCHANGED <<sessionVars, rWallet, selectedAccountPubkeys,
                              totalLamports, feeLamports, instructions,
                              transaction, signedTx, signature, pollIndex, confirmed,
                              nBlockhash, nSign, nSend, nStatus, outcome, endedAt,
                              inFlightEvents>>

\* page.tsx:269, 256  the one-second timer fires; i++ and the loop test
WaitDone ==
  /\ pc = "wait"
  /\ unchangedByReclaim
  /\ lastReply' = NoReply
  /\ IF LoopContinues(pollIndex + 1)
     THEN /\ pollIndex' = pollIndex + 1
          /\ nStatus' = nStatus + 1
          /\ pc' = "poll"
          /\ UNCHANGED <<sessionVars, rWallet, selectedAccountPubkeys,
                         totalLamports, feeLamports, instructions, transaction,
                         signedTx, signature, confirmed, nBlockhash, nSign,
                         nSend, outcome, endedAt, inFlightEvents>>
     ELSE Finish(FALSE)

Next ==
  \/ checkWalletConnection
  \/ connectWallet
  \/ disconnectWallet
  \/ handleAddressSubmit
  \/ loadConnectedWallet
  \/ clearAddress
  \/ scanAccounts
  \/ ScanResponse
  \/ toggleSelectAccount
  \/ selectAll
  \/ deselectAll
  \/ reclaimSOL
  \/ BlockhashReply
  \/ SignReply
  \/ SendReply
  \/ PollReply
  \/ WaitDone

(***************************************************************************)
(* Specifications                                                          *)
(***************************************************************************)
InitFee == FeeInit /\ LibIdle /\ DetIdle /\ PageIdle

SpecFee == InitFee /\ [][FeeNext]_vars

InitLib == LibInit /\ FeeIdle /\ DetIdle /\ PageIdle

SpecLib == InitLib /\ [][LibNext]_vars

InitDetect == DetInit /\ FeeIdle /\ LibIdle /\ PageIdle

SpecDetect == InitDetect /\ [][DetNext]_vars

InitRescan == RescanInit /\ FeeIdle /\ LibIdle /\ PageIdle

SpecRescan == InitRescan /\ [][RescanNext]_vars

Init == PageInit /\ FeeIdle /\ LibIdle /\ DetIdle

Spec == Init /\ [][Next]_vars

AbandonNext == Next \/ navigateAway

SpecAbandon == Init /\ [][AbandonNext]_vars

EndpointNext ==
  \/ checkWalletConnection
  \/ connectWallet
  \/ disconnectWallet
  \/ handleAddressSubmit
  \/ loadConnectedWallet
  \/ clearAddress
  \/ scanAccounts
  \/ LoggedScanResponse
  \/ DirectRequest

SpecEndpoint == Init /\ [][EndpointNext]_vars

\* every call the attempt awaits settles (resolves or rejects)
SpecSettle ==
  /\ Init
  /\ [][Next]_vars
  /\ WF_vars(BlockhashReply)
  /\ WF_vars(SignReply)
  /\ WF_vars(SendReply)
  /\ WF_vars(PollReply)
  /\ WF_vars(WaitDone)

\* every awaited status query settles and every timer fires
SpecLive == Init /\ [][Next]_vars /\ WF_vars(PollReply) /\ WF_vars(WaitDone)

(***************************************************************************)
(* Claims                                                                  *)
(***************************************************************************)
NoDuplicateAddress(list) ==
  \A m, n \in 1..Len(list) : list[m].address = list[n].address => m = n

\* C1: the sequence returned by detectReclaimableAccounts contains no two
\* entries with the same address, whatever the four queries returned
\* (SpecDetect).
C1_NoDuplicateAddresses ==
  detPc = "returned" => NoDuplicateAddress(reclaimableAccounts)

IsExactFloor15(total, fee) ==
  LET t15 == MulBits(NatToBits(15), total)
  IN  /\ LeqBits(MulBits(NatToBits(100), fee), t15)
      /\ LessBits(t15, MulBits(NatToBits(100), AddBits(fee, <<1>>)))

\* C3: the fee is floor(totalLamports * 15 / 100) on the exact integer sum
\* of the selected balances, always rounded down (SpecFee).
C3_FeeIsExactFloor ==
  feePc = "done" =>
    /\ feeTotal = AddBits(feeBalances[1], feeBalances[2])
    /\ IsExactFloor15(feeTotal, feeFee)

\* the k-th account of the list (in list order) whose address is selected
SelectedIndex(list, selected, k) ==
  CHOOSE n \in 1..Len(list) :
    /\ list[n].address \in selected
    /\ Cardinality({m \in 1..(n - 1) : list[m].address \in selected}) = k - 1

IsCloseOf(ins, address, owner) ==
  /\ ins.programId = TOKEN_PROGRAM_ID
  /\ ins.data = <<9>>
  /\ Len(ins.keys) = 3
  /\ ins.keys[1].pubkey = address
  /\ ins.keys[2].pubkey = owner
  /\ ins.keys[3].pubkey = owner
  /\ ins.keys[3].isSigner

\* C4: the click that starts an attempt builds one close instruction per
\* listed account whose address is selected, in list order, each with
\* destination and authority the connected wallet, and none for any other
\* account; all instructions before the last one are these closes.
C4_OneClosePerSelected ==
  [][(pc = "idle" /\ pc' = "blockhash") =>
       LET count == Cardinality({n \in 1..Len(accounts) :
                                   accounts[n].address \in selectedAccounts})
       IN  /\ Len(instructions') = count + 1
           /\ \A k \in 1..count :
                IsCloseOf(instructions'[k],
                          accounts[SelectedIndex(accounts, selectedAccounts, k)].address,
                          wallet)]_vars

\* two listed accounts selected: closes for A1 then A2, then the transfer
C4_Witness ==
  /\ pc = "blockhash"
  /\ Len(instructions) = 3
  /\ instructions[1].keys[1].pubkey = "A1"
  /\ instructions[2].keys[1].pubkey = "A2"
  /\ instructions[1].keys[2].pubkey = WalletKey

IsSystemTransfer(ins) == ins.programId = SYSTEM_PROGRAM_ID

\* the amount of a transfer whose 64-bit little-endian amount is below 2^31
TransferAmount(ins) ==
  ins.data[5] + 256 * ins.data[6] + 65536 * ins.data[7] + 16777216 * ins.data[8]

\* C5: the built sequence holds exactly one system-program transfer, as its
\* last instruction, from the connected wallet (signer) to the fee
\* recipient, of feeLamports; the transaction carries the sequence as built.
C5_OneFeeTransferLast ==
  pc # "idle" =>
    LET n    == Len(instructions)
        last == instructions[n]
    IN  /\ n >= 1
        /\ \A k \in 1..n : IsSystemTransfer(instructions[k]) <=> k = n
        /\ Len(last.keys) = 2
        /\ last.keys[1] = [pubkey |-> rWallet, isSigner |-> TRUE, isWritable |-> TRUE]
        /\ last.keys[2].pubkey = FeeRecipientKey
        /\ ~last.keys[2].isSigner
        /\ Len(last.data) = 12
        /\ SubSeq(last.data, 1, 4) = <<2, 0, 0, 0>>
        /\ SubSeq(last.data, 9, 12) = <<0, 0, 0, 0>>
        /\ last.data[8] < 128
        /\ TransferAmount(last) = feeLamports
        /\ pc \in {"sign", "send", "poll", "wait"} => transaction = instructions

\* the transaction handed to the wallet ends with a transfer of 1055 lamports
C5_Witness ==
  /\ pc = "sign"
  /\ feeLamports = 1055
  /\ Len(transaction) = 3
  /\ transaction[3].data = <<2, 0, 0, 0, 31, 4, 0, 0, 0, 0, 0, 0>>

\* C6: when no listed account has its address in the selection set,
\* reclaimSOL builds no instruction, requests no signature and makes no
\* network call.
C6_EmptySelectionBuildsNothing ==
  (pc # "idle" /\ selectedAccountPubkeys = <<>>) =>
    /\ instructions = <<>>
    /\ nBlockhash = 0
    /\ nSign = 0
    /\ nSend = 0
    /\ nStatus = 0

\* C7: with a fee recipient that does not parse, no attempt gets past the
\* synchronous part: no block reference, signature, submission or status
\* is ever requested and no instruction sequence is kept; and a
\* transaction, when there is one, holds all closes and the fee transfer.
C7_BadRecipientFailsBeforeNetwork ==
  /\ feeRecipientEnv # FeeRecipientKey =>
       /\ pc = "idle"
       /\ nBlockhash = 0 /\ nSign = 0 /\ nSend = 0 /\ nStatus = 0
       /\ instructions = <<>>
       /\ transaction = <<>>
       /\ ~loading
  /\ transaction # <<>> =>
       /\ Len(transaction) = Len(selectedAccountPubkeys) + 1
       /\ IsSystemTransfer(transaction[Len(transaction)])

\* an attempt was made with an unparseable recipient and failed
C7_Witness ==
  /\ feeRecipientEnv = "garbage"
  /\ outcome = "Failed"
  /\ error = "Transaction failed"
  /\ selectedAccounts # {}

PcStepAllowed(from, to) ==
  \/ from = to
  \/ from = "idle" /\ to = "blockhash"
  \/ from = "blockhash" /\ to = "sign"
  \/ from = "sign" /\ to = "send"
  \/ from = "send" /\ to = "poll"
  \/ from = "poll" /\ to = "wait"
  \/ from = "wait" /\ to = "poll"
  \/ to = "idle"

\* C8: an attempt goes Built -> Signed -> Submitted -> terminal in that
\* order: the wallet is asked only once the transaction is built, the
\* submission is made only once the wallet has signed, the status is
\* queried only once a submission returned an id, each at most once per
\* attempt, and after the terminal outcome nothing more is signed,
\* submitted or polled.
C8_AttemptOrder ==
  /\ [](nSign > 0 => transaction # <<>>)
  /\ [](nSend > 0 => (signedTx /\ nSign = 1))
  /\ [](nStatus > 0 => (signature # "" /\ nSend = 1))
  /\ [](nSign <= 1 /\ nSend <= 1 /\ nBlockhash <= 1)
  /\ [](pc = "idle" => (nSign = 0 /\ nSend = 0 /\ nStatus = 0 /\ nBlockhash = 0))
  /\ [][/\ PcStepAllowed(pc, pc')
        /\ (pc # "idle" /\ pc' = "idle") =>
             outcome' = (IF pc = "poll" THEN "Confirmed"
                         ELSE IF pc = "wait" THEN "TimedOut" ELSE "Failed")
        /\ pc = "idle" => (nSign' = 0 /\ nSend' = 0 /\ nStatus' = 0)]_vars

\* a signed and submitted transaction being polled for the third time
C8_Witness ==
  /\ pc = "poll"
  /\ nStatus = 3
  /\ signedTx
  /\ signature = "sig"

\* C9: the confirmation loop issues at most 60 status queries and, when
\* every query settles and every timer fires, the attempt ends (SpecLive).
C9_PollingBounded ==
  /\ [](nStatus <= 60)
  /\ (pc \in {"poll", "wait"}) ~> (pc = "idle")

\* the sixtieth status query is in flight
C9_Witness ==
  /\ pc = "poll"
  /\ nStatus = 60
  /\ pollIndex = 59

ReportsConfirmed(r) ==
  /\ ~r.threw
  /\ r.present
  /\ r.confirmationStatus \in {"confirmed", "finalized"}

\* C10: a status reply of level confirmed or finalized ends the attempt as
\* Confirmed in the same step (no further query, no wait); any other reply
\* (processed, absent, an error) goes on to the wait and never yields
\* Confirmed.
C10_ConfirmedAsSoonAsReported ==
  /\ [](outcome = "Confirmed" => ReportsConfirmed(lastReply))
  /\ [][(pc = "poll" /\ lastReply' # lastReply) =>
          IF ReportsConfirmed(lastReply')
          THEN /\ pc' = "idle"
               /\ outcome' = "Confirmed"
               /\ nStatus' = 0
               /\ Rendered => status' = "Success! Reclaimed"
          ELSE /\ pc' = "wait"
               /\ outcome' # "Confirmed"
               /\ nStatus' = nStatus]_vars

\* an attempt confirmed by a finalized reply on a later query
C10_Witness ==
  /\ outcome = "Confirmed"
  /\ lastReply.confirmationStatus = "finalized"
  /\ status = "Success! Reclaimed"

\* C11: when the sixtieth wait ends without a confirmation the attempt
\* ends TimedOut: no error is set, the status message says the transaction
\* is submitted, and it carries the transaction identifier that the
\* submission returned.
C11_TimedOutReportsTransaction ==
  [][(pc = "wait" /\ pc' = "idle") =>
       /\ outcome' = "TimedOut"
       /\ nStatus = 60
       /\ nStatus' = 0
       /\ error' = error
       /\ Rendered => /\ status' = "Transaction submitted! Check Solscan"
                      /\ statusTx' = SignatureChars(signature)]_vars

\* C12: a transaction whose reported status carries an execution error is
\* never reported as Confirmed.
C12_ExecutionErrorNeverConfirmed ==
  outcome = "Confirmed" => lastReply.err = "none"

\* C13: when the wallet rejects the signature request the attempt ends
\* Failed with nothing submitted and no status polled, and neither that
\* step nor the steps of the attempt before it change the accounts list,
\* the selection set or the total; the button is released.
C13_RejectedSignatureNoSideEffect ==
  /\ [](endedAt = "sign" => outcome = "Failed")
  /\ [][(pc = "sign" /\ pc' = "idle") =>
          /\ nSend = 0 /\ nStatus = 0 /\ signature = "" /\ ~signedTx
          /\ nSend' = 0 /\ nStatus' = 0
          /\ accounts' = accounts
          /\ selectedAccounts' = selectedAccounts
          /\ totalSOL' = totalSOL
          /\ outcome' = "Failed"
          /\ Rendered => (~loading' /\ error' = "Transaction failed")]_vars
  /\ [][(pc' \in {"blockhash", "sign"} /\ pc' # pc) =>
          /\ accounts' = accounts
          /\ selectedAccounts' = selectedAccounts
          /\ totalSOL' = totalSOL]_vars

\* a rejected signature request with both accounts still listed and selected
C13_Witness ==
  /\ endedAt = "sign"
  /\ outcome = "Failed"
  /\ Len(accounts) = 2
  /\ selectedAccounts = {"A1", "A2"}
  /\ error = "Transaction failed"
  /\ ~loading

\* C14: an error raised by a status query during the confirmation polling
\* ends the attempt as Failed with the error reported.
C14_PollErrorSurfaced ==
  [][(pc = "poll" /\ lastReply'.threw) =>
       /\ pc' = "idle"
       /\ outcome' = "Failed"
       /\ Rendered => error' = "Transaction failed"]_vars

\* C15: within one invocation the wallet is asked to sign at most once and
\* the signed transaction is submitted at most once: the only signature
\* request follows the blockhash, the only submission follows the
\* signature, and no later step goes back to either.
C15_NoAutomaticResubmission ==
  /\ [](nSign <= 1 /\ nSend <= 1)
  /\ [][nSign' > nSign => (pc = "blockhash" /\ nSign = 0 /\ nSend = 0)]_vars
  /\ [][nSend' > nSend => (pc = "sign" /\ nSend = 0 /\ nSign = 1)]_vars
  /\ [][(pc = "send" => pc' \in {"send", "poll", "wait", "idle"})
        /\ (pc \in {"poll", "wait"} => pc' \in {"poll", "wait", "idle"})]_vars

\* the last wait of an attempt that signed once and submitted once
C15_Witness ==
  /\ pc = "wait"
  /\ pollIndex = 59
  /\ nSign = 1
  /\ nSend = 1

IsPrefixOf(short, long) ==
  /\ Len(short) <= Len(long)
  /\ SubSeq(long, 1, Len(short)) = short

\* C16: a ledger query of one strategy that fails does not abort the scan:
\* the scan goes on to the next strategy (or returns) and keeps the
\* candidates found so far (SpecDetect).
C16_FailedStrategyKeepsOthers ==
  [][(detPc \in {"A", "B", "C", "D"}) =>
       /\ detPc' \in {"A", "B", "C", "D", "returned"}
       /\ IsPrefixOf(reclaimableAccounts, reclaimableAccounts')]_vars

\* C17: once the second strategy has run, an account that its query reports
\* as owned by the token program with amount "0" and decimals 0 is in the
\* result, and every entry for it is classified nft (SpecDetect).
C17_ZeroDecimalsIsNft ==
  detPc = "C" =>
    \A k \in 1..Len(detQuery) :
      (/\ detQuery[k].owner = TOKEN_PROGRAM_ID
       /\ detQuery[k].amount = "0"
       /\ detQuery[k].decimals = 0) =>
        /\ \E n \in 1..Len(reclaimableAccounts) :
             reclaimableAccounts[n].address = detQuery[k].pubkey
        /\ \A n \in 1..Len(reclaimableAccounts) :
             reclaimableAccounts[n].address = detQuery[k].pubkey =>
               reclaimableAccounts[n].type = "nft"

\* the entries of the second list that come after the first list
AddedEntries(before, after) == SubSeq(after, Len(before) + 1, Len(after))

\* C18: first writer wins: a step of strategy B, C or D leaves every entry
\* already in the result as it is, adds no entry for an address that the
\* result already holds and at most one entry per address, and each entry
\* it adds carries the balance and the owning program of a record of that
\* strategy's own query (SpecDetect).
C18_FirstWriterWins ==
  [][(detPc \in {"B", "C", "D"} /\ detPc' \in {"C", "D", "returned"}) =>
       LET added == AddedEntries(reclaimableAccounts, reclaimableAccounts')
       IN  /\ IsPrefixOf(reclaimableAccounts, reclaimableAccounts')
           /\ \A k \in 1..Len(added) :
                /\ \A n \in 1..Len(reclaimableAccounts) :
                     reclaimableAccounts[n].address # added[k].address
                /\ \A j \in 1..Len(added) :
                     added[j].address = added[k].address => j = k
                /\ added[k].type # "token"
                /\ \E i \in 1..Len(detQuery') :
                     /\ detQuery'[i].pubkey = added[k].address
                     /\ detQuery'[i].lamports = added[k].lamports
                     /\ detQuery'[i].owner = added[k].programId]_vars

\* the last strategy's query returned an address that the first strategy
\* had recorded: the entry is still the first strategy's
C18_Witness ==
  /\ detPc = "returned"
  /\ Len(reclaimableAccounts) = 1
  /\ reclaimableAccounts[1].type = "token"
  /\ reclaimableAccounts[1].lamports = 2039
  /\ \E i \in 1..Len(detQuery) :
       /\ detQuery[i].pubkey = reclaimableAccounts[1].address
       /\ detQuery[i].lamports = 5000

TypeRank(type) ==
  CASE type = "token" -> 1
    [] type = "nft" -> 2
    [] type = "associated-token" -> 3
    [] OTHER -> 4

\* C19: the result is in discovery order: a strategy step only appends, in
\* the order of its query result, so the entries of A come before those of
\* B, then C, then D, and no step that goes on with the scan reorders or
\* removes an entry (SpecDetect).
C19_InsertionOrderPreserved ==
  /\ [](\A m, n \in 1..Len(reclaimableAccounts) :
          m < n => TypeRank(reclaimableAccounts[m].type)
                     <= TypeRank(reclaimableAccounts[n].type))
  /\ [][(detPc' \in {"B", "C", "D", "returned"}) =>
          LET added == AddedEntries(reclaimableAccounts, reclaimableAccounts')
          IN  /\ IsPrefixOf(reclaimableAccounts, reclaimableAccounts')
              /\ \E f \in [1..Len(added) -> 1..Len(detQuery')] :
                   /\ \A k \in 1..Len(added) :
                        /\ detQuery'[f[k]].pubkey = added[k].address
                        /\ detQuery'[f[k]].lamports = added[k].lamports
                   /\ \A j, k \in 1..Len(added) : j < k => f[j] < f[k]]_vars

\* the second strategy recorded A2 and the last one then recorded A1
C19_Witness ==
  /\ detPc = "returned"
  /\ Len(reclaimableAccounts) = 2
  /\ reclaimableAccounts[1].address = "A2"
  /\ reclaimableAccounts[1].type = "nft"
  /\ reclaimableAccounts[2].address = "A1"
  /\ reclaimableAccounts[2].type = "unknown"

C27_NoExecutableEntry ==
  \A n \in 1..Len(reclaimableAccounts) : ~reclaimableAccounts[n].executable

\* C28: in a returned result an entry is classified unknown only when its
\* owning program is none of the token, associated-token and metadata
\* programs; an entry of the catch-all strategy owned by one of these
\* carries that program's classification (SpecDetect).
C28_CatchAllClassifiesByOwner ==
  detPc = "returned" =>
    \A n \in 1..Len(reclaimableAccounts) :
      LET e == reclaimableAccounts[n]
      IN  /\ e.programId = e.owner
          /\ e.type = "unknown" =>
               e.owner \notin {TOKEN_PROGRAM_ID, ASSOCIATED_TOKEN_PROGRAM_ID,
                               METAPLEX_PROGRAM_ID}

\* C29: when the first strategy's loop is over, the number of pauses it made
\* is at most floor(candidates / 50): a pause needs 50 more accumulated
\* candidates, so there is none while no candidate has been accumulated
\* (SpecDetect).
C29_ThrottleEveryFifty ==
  detPc = "B" => detPauses * 50 <= Len(reclaimableAccounts)

\* the exact integer sum of the balances of a list
RECURSIVE ExactSum(_)
ExactSum(list) ==
  IF list = <<>> THEN <<>>
  ELSE AddBits(Head(list).lamports, ExactSum(Tail(list)))

\* C21: the total of X followed by Y is the total of X plus the total of Y,
\* the total of the empty list is 0, and every total is the exact integer
\* sum of the balances (SpecLib).
C21_TotalIsAdditiveAndExact ==
  libDone.total /\ libAccounts # <<>> =>
    /\ libTotals.xy.totalLamports =
         AddBits(libTotals.x.totalLamports, libTotals.y.totalLamports)
    /\ libTotals.xy.totalLamports = ExactSum(libAccounts)
    /\ libSplit = 0 => libTotals.x.totalLamports = <<>>

\* the threshold a call works with
ThresholdOf(minArg) == IF minArg.given THEN minArg.value ELSE NatToBits(2000)

RECURSIVE IsSubsequence(_, _)
IsSubsequence(s, t) ==
  IF s = <<>> THEN TRUE
  ELSE IF t = <<>> THEN FALSE
  ELSE IF Head(s) = Head(t) THEN IsSubsequence(Tail(s), Tail(t))
  ELSE IsSubsequence(s, Tail(t))

\* C22: for thresholds m1 <= m2 the result for m2 is a subsequence of the
\* result for m1 and is not longer (SpecLib).
C22_FilterIsMonotonic ==
  libDone.filter /\ libAccounts # <<>>
    /\ LeqBits(ThresholdOf(libMin1), ThresholdOf(libMin2)) =>
      /\ IsSubsequence(libFiltered2, libFiltered1)
      /\ Len(libFiltered2) <= Len(libFiltered1)

C22_Witness ==
  /\ libDone.filter
  /\ LessBits(ThresholdOf(libMin1), ThresholdOf(libMin2))
  /\ 0 < Len(libFiltered2)
  /\ Len(libFiltered2) < Len(libFiltered1)

\* position in the list of the j-th account at or above the threshold m
KeptIndex(list, m, j) ==
  CHOOSE n \in 1..Len(list) :
    /\ LeqBits(m, list[n].lamports)
    /\ Cardinality({k \in 1..n : LeqBits(m, list[k].lamports)}) = j

\* C23: the call returns, in input order, exactly the accounts whose balance
\* is at least the threshold (2000 when none is given), and leaves its
\* argument as it was (SpecLib).
C23_FilterKeepsExactlySignificant ==
  [][(~libDone.filter /\ libDone'.filter) =>
       LET m == ThresholdOf(libMin1)
           kept == {n \in 1..Len(libAccounts) : LeqBits(m, libAccounts[n].lamports)}
       IN  /\ libAccounts' = libAccounts
           /\ Len(libFiltered1') = Cardinality(kept)
           /\ \A j \in 1..Len(libFiltered1') :
                libFiltered1'[j] = libAccounts[KeptIndex(libAccounts, m, j)]]_vars

C23_Witness ==
  /\ libDone.filter
  /\ ~libMin1.given
  /\ Len(libAccounts) = 3
  /\ libAccounts[1].lamports = NatToBits(2039)
  /\ libAccounts[2].lamports = NatToBits(1999)
  /\ libAccounts[3].lamports = NatToBits(2000)
  /\ libFiltered1 = <<libAccounts[1], libAccounts[3]>>

\* C24: an attempt that has called the ledger submission leaves the
\* selection set empty when it ends, whether it ends Confirmed, TimedOut or
\* by a failure of the submission (Spec).
C24_SelectionClearedAfterSubmission ==
  [][(pc \in {"send", "poll", "wait"} /\ pc' = "idle" /\ Rendered) =>
       selectedAccounts' = {}]_vars

\* C25: once the user has left the page, the attempt in flight issues no
\* further status query and updates no session state (SpecAbandon).
C25_AbandonedAttemptStopsPolling ==
  [][(~mounted) => (nStatus' <= nStatus /\ sessionVars' = sessionVars)]_vars

\* C26: the page holds and sends only addresses that parse; the endpoint
\* calls detectReclaimableAccounts only with a key that parses, and answers
\* a request without pubkey with the error code 400 and no query
\* (SpecEndpoint).
C26_MalformedAddressNeverQueried ==
  /\ publicAddress # "" => ParsesAsPublicKey(publicAddress)
  /\ scanPc = "fetch" => ParsesAsPublicKey(scanPubkey)
  /\ lastRequest.detectCalledWith # NoQuery =>
       /\ ParsesAsPublicKey(lastRequest.detectCalledWith)
       /\ lastRequest.detectCalledWith = lastRequest.pubkey
  /\ ~ParsesAsPublicKey(lastRequest.pubkey) =>
       lastRequest.detectCalledWith = NoQuery
  /\ lastRequest.pubkey \in {Undefined, ""} => lastRequest.code = 400

C26_Witness ==
  /\ lastRequest.pubkey = "garbage"
  /\ lastRequest.code = 500
  /\ lastRequest.detectCalledWith = NoQuery
  /\ error = "Invalid Solana address. Please check and try again."
  /\ publicAddress = "W2"

\* C30: every account of the page's list has at least 2000 lamports (Spec).
C30_ListedAccountsAreSignificant ==
  \A n \in 1..Len(accounts) : accounts[n].lamports >= 2000

\* C31: every entry satisfies the candidate condition of the strategy that
\* inserted it: a step of strategy A or B adds only token / nft entries for
\* records of its query with token amount "0" (B: and decimals 0), a step
\* of strategy C or D adds only associated-token / unknown entries for
\* records of its query with a positive balance, and in every state a token
\* or nft entry is owned by the token program and an associated-token or
\* unknown entry has a positive balance (SpecDetect).
C31_EntriesSatisfyCandidateCondition ==
  /\ [](\A n \in 1..Len(reclaimableAccounts) :
          LET e == reclaimableAccounts[n]
          IN  /\ e.type \in {"token", "nft"} => e.owner = TOKEN_PROGRAM_ID
              /\ e.type \in {"associated-token", "unknown"} => e.lamports > 0)
  /\ [][(detPc \in {"A", "B", "C", "D"} /\ detPc' \in {"B", "C", "D", "returned"}) =>
          LET added == AddedEntries(reclaimableAccounts, reclaimableAccounts')
          IN  \A k \in 1..Len(added) :
                /\ added[k].type = (CASE detPc = "A" -> "token"
                                      [] detPc = "B" -> "nft"
                                      [] detPc = "C" -> "associated-token"
                                      [] OTHER -> "unknown")
                /\ \E i \in 1..Len(detQuery') :
                     /\ detQuery'[i].pubkey = added[k].address
                     /\ detQuery'[i].lamports = added[k].lamports
                     /\ IF detPc \in {"A", "B"}
                        THEN /\ detQuery'[i].amount = "0"
                             /\ detPc = "B" => detQuery'[i].decimals = 0
                        ELSE detQuery'[i].lamports > 0]_vars

\* the third query returned one record with balance 0 and one with a
\* positive balance; only the second is in the result
C31_Witness ==
  /\ detPc = "D"
  /\ Len(detQuery) = 2
  /\ detQuery[1].lamports = 0
  /\ detQuery[1].pubkey = "A2"
  /\ detQuery[2].lamports > 0
  /\ detQuery[2].pubkey = "A1"
  /\ Len(reclaimableAccounts) = 1
  /\ reclaimableAccounts[1].type = "associated-token"
  /\ reclaimableAccounts[1].address = "A1"

\* C32: when the second token-account query returns the records of the
\* first, strategy B inserts nothing; an entry it does insert is for a
\* zero-amount record of its query whose address the first query did not
\* report with amount "0"; no other strategy inserts an nft entry
\* (SpecDetect).
C32_NftOnlyWhenQueriesDiffer ==
  [][/\ (detPc = "B" /\ detPc' = "C") =>
          LET added == AddedEntries(reclaimableAccounts, reclaimableAccounts')
          IN  /\ detQuery' = detQuery => added = <<>>
              /\ \A k \in 1..Len(added) :
                   /\ \E i \in 1..Len(detQuery') :
                        /\ detQuery'[i].pubkey = added[k].address
                        /\ detQuery'[i].amount = "0"
                   /\ \A j \in 1..Len(detQuery) :
                        detQuery[j].pubkey = added[k].address =>
                          detQuery[j].amount # "0"
     /\ (detPc # "B") =>
          \A n \in 1..Len(reclaimableAccounts') :
            reclaimableAccounts'[n].type = "nft" =>
              /\ n <= Len(reclaimableAccounts)
              /\ reclaimableAccounts[n] = reclaimableAccounts'[n]]_vars

\* the second query returned the zero-amount, decimals-0 account that the
\* first strategy had recorded: it is still the only entry, tagged token
C32_Witness ==
  /\ detPc = "C"
  /\ Len(detQuery) = 1
  /\ detQuery[1].amount = "0"
  /\ detQuery[1].decimals = 0
  /\ Len(reclaimableAccounts) = 1
  /\ reclaimableAccounts[1].address = detQuery[1].pubkey
  /\ reclaimableAccounts[1].type = "token"

\* C33: the selection set is a subset of the addresses of the accounts list
\* in every state of a rendered page (Spec).
C33_SelectionWithinList ==
  Rendered => selectedAccounts \subseteq AddressesOf(accounts)

\* C34: the accounts list belongs to the loaded address: a step that loads
\* or clears the address leaves no account of the former address in the
\* list, and a scan response fills the list only when it answers a request
\* for the address that is loaded when it arrives (Spec).
C34_ListBelongsToLoadedAddress ==
  [][/\ (publicAddress' # publicAddress) => accounts' = <<>>
     /\ (/\ scanPc = "fetch"
         /\ scanPc' = "idle"
         /\ status' = "Found empty accounts"
         /\ accounts' # <<>>) => scanPubkey = publicAddress]_vars

\* C35: a scan that fails (the endpoint answers without accounts, or the
\* request throws) reports an error, resets the scanning flag and leaves the
\* accounts list as it was, a well-formed sequence (Spec).
C35_FailedScanKeepsList ==
  [][(/\ scanPc = "fetch"
      /\ scanPc' = "idle"
      /\ error' = "Error scanning accounts") =>
       /\ ~scanning'
       /\ ~accountsUndefined'
       /\ accounts' = accounts]_vars

\* C38: when an attempt leaves the confirmation loop, a list that a scan
\* has replaced while the attempt was in flight (it no longer holds an
\* account the attempt was built from) is left as it is, and so is a
\* selection that names an account the attempt was not built from (Spec).
C38_EndClearsOnlyItsOwnLists ==
  [][(pc \in {"poll", "wait"} /\ pc' = "idle" /\ Rendered /\ inFlightEvents > 0) =>
       /\ (\E k \in 1..Len(selectedAccountPubkeys) :
             \A n \in 1..Len(accounts) : accounts[n] # selectedAccountPubkeys[k])
            => accounts' = accounts
       /\ (/\ selectedAccounts \subseteq AddressesOf(accounts)
           /\ \E a \in selectedAccounts :
                \A k \in 1..Len(selectedAccountPubkeys) :
                  selectedAccountPubkeys[k].address # a)
            => selectedAccounts' = selectedAccounts]_vars

\* C36: an attempt starts (a transaction is built and the first network call
\* made) only from a state where a wallet is connected and its address is
\* the loaded, scanned address; a click that reports the missing or
\* mismatching wallet leaves accounts, selection and loading unchanged, the
\* attempt idle and every network counter at zero (Spec).
C36_ReclaimNeedsMatchingWallet ==
  [][/\ (pc = "idle" /\ (pc' # "idle" \/ instructions' # <<>> \/ nBlockhash' > 0)) =>
          /\ connected
          /\ wallet # NoWallet
          /\ wallet = publicAddress
          /\ rWallet' = wallet
     /\ (/\ pc = "idle"
         /\ error' # error
         /\ error' \in {"Please connect your wallet first to claim SOL",
                        "Connected wallet must match the scanned address to claim"}) =>
          /\ ~connected \/ wallet = NoWallet \/ wallet # publicAddress
          /\ accounts' = accounts
          /\ selectedAccounts' = selectedAccounts
          /\ loading' = loading
          /\ pc' = "idle"
          /\ instructions' = <<>>
          /\ nBlockhash' = 0 /\ nSign' = 0 /\ nSend' = 0 /\ nStatus' = 0]_vars

\* the connected wallet W1 differs from the loaded address W2, whose
\* account is listed and selected: the click has only set the error
C36_Witness ==
  /\ connected
  /\ wallet = "W1"
  /\ publicAddress = "W2"
  /\ selectedAccounts = {"A1"}
  /\ Len(accounts) = 1
  /\ error = "Connected wallet must match the scanned address to claim"
  /\ pc = "idle"
  /\ ~loading
  /\ outcome = "none"

ByteBits(v) == [j \in 1..8 |-> (v \div 2^(j - 1)) % 2]

RECURSIVE BytesToBits(_)
BytesToBits(bytes) ==
  IF bytes = <<>> THEN <<>> ELSE ByteBits(Head(bytes)) \o BytesToBits(Tail(bytes))

\* C39: the fee is written as eight bytes, two 32-bit little-endian words:
\* the low word is feeLamports mod 2^32, the high word is
\* floor(feeLamports / 2^32), and low + high * 2^32 = feeLamports (SpecFee).
C39_FeeEncodedAsTwoWords ==
  feePc = "done" =>
    LET low  == Normalize(BytesToBits(SubSeq(feeData, 1, 4)))
        high == Normalize(BytesToBits(SubSeq(feeData, 5, 8)))
    IN  /\ Len(feeFee) <= 53
        /\ Len(feeData) = 8
        /\ \A k \in 1..8 : feeData[k] \in 0..255
        /\ low = Normalize([k \in 1..32 |-> IF k <= Len(feeFee) THEN feeFee[k] ELSE 0])
        /\ high = ShiftRight(feeFee, 32)
        /\ AddBits(low, ShiftLeft(high, 32)) = feeFee

\* a fee of more than 32 bits with both words in use
C39_Witness ==
  /\ feePc = "done"
  /\ Len(feeFee) > 40
  /\ feeData[1] # 0
  /\ feeData[5] # 0
  /\ feeData[6] # 0
====
